---- MODULE Spec2Model ----
(***************************************************************************)
(* The proving pipeline of the nexus CLI (clients/cli/src/prover):         *)
(* prove_authenticated dispatches on the program id, prove_fib_task fans   *)
(* the task's inputs out to per-input futures through                      *)
(* stream.buffer_unordered(num_workers).try_collect(), sorts the collected *)
(* results by input index and combines the proof hashes.                   *)
(*                                                                         *)
(* The dispatcher is one cooperative task.  A poll of BufferUnordered      *)
(* first fills the in-progress queue up to num_workers, then polls the     *)
(* futures that are ready to run.  The proving engine and the spawned      *)
(* analytics reports are the environment: an engine call completes at any  *)
(* moment with any result, a spawned report finishes at any moment.        *)
(***************************************************************************)
EXTENDS Integers, Sequences, FiniteSets, TLC

\* Bounds of the model.
MaxLen == 3        \* longest task input list
MaxWorkers == 2    \* largest num_workers
MaxRaw == 2        \* raw input buffers are coded 0..MaxRaw

\* Modulus of the modelled digests.
HashMod == 251

VARIABLES
    task,          \* the Task: program_id, task_type, inputs
    num_workers,   \* the worker budget
    pc,            \* position of the dispatching task
    next_index,    \* items already taken from the enumerate() iterator
    stream_done,   \* the fused input stream has returned None
    in_progress,   \* input indices whose futures are in the in-progress queue
    unit,          \* per input index: state of its future and engine result
    results,       \* the Vec try_collect is building, in completion order
    outcome,       \* what prove_authenticated returned
    reports,       \* the spawned track_verification_failed tasks
    completed,     \* history: input indices in the order their futures returned
    calls          \* call counters: parser, engine, hash combiner

vars == <<task, num_workers, pc, next_index, stream_done, in_progress, unit,
          results, outcome, reports, completed, calls>>

-----------------------------------------------------------------------------
\* Values

ProgramIds == {"fib_input_initial", "fast_fib"}
TaskTypes == {"Individual", "ProofHash", "AllProofHashes"}
RawInputs == 0..MaxRaw

NoErr == [kind |-> "none", msg |-> "", unit |-> -1]
NoOutcome == [tag |-> "none", proofs |-> <<>>, hash |-> -1, hashes |-> <<>>, err |-> NoErr]

MalformedTask(m) == [kind |-> "MalformedTask", msg |-> m, unit |-> -1]

\* An error raised while processing input i.  Errors of different calls are
\* different values (they carry their own message text): the unit field
\* stands for that text.
UnitErr(k, i) == [kind |-> k, msg |-> "", unit |-> i]

Ok(v) == [ok |-> TRUE, val |-> v, err |-> NoErr]
Err(e) == [ok |-> FALSE, val |-> <<>>, err |-> e]

\* InputParser::parse_triple_input: buffer 0 does not decode; buffer d > 0
\* decodes to the triple (d, 1, 1).
parse_triple_input(input_data, i) ==
    IF input_data = 0 THEN Err(UnitErr("Parse", i))
    ELSE Ok(<<input_data, 1, 1>>)

\* The results ProvingEngine::prove_and_validate can return to the future of
\* input i for the parsed inputs: their proof, or an error of any kind.
EngineErrKinds == {"Stwo", "GuestProgram", "Other"}
ProofOf(inputs) == [proves |-> inputs]
EngineResults(inputs, i) ==
    {Ok(ProofOf(inputs))} \cup {Err(UnitErr(k, i)) : k \in EngineErrKinds}

\* A digest of a byte sequence: an order-sensitive fold.
RECURSIVE Digest(_, _)
Digest(acc, bytes) ==
    IF bytes = <<>> THEN acc
    ELSE Digest((acc * 33 + Head(bytes) + 1) % HashMod, Tail(bytes))

\* generate_proof_hash: digest of the serialized proof.
generate_proof_hash(proof) == Digest(7, proof.proves)

\* Task::combine_proof_hashes: one hash of the whole ordered list.
Task_combine_proof_hashes(proof_hashes) == Digest(11, proof_hashes)

\* Mutant: only AllProofHashes is combined, ProofHash falls to the default arm.
combine_proof_hashes_AllOnly(t, proof_hashes) ==
    IF t.task_type = "AllProofHashes"
    THEN Task_combine_proof_hashes(proof_hashes)
    ELSE IF proof_hashes = <<>> THEN -1 ELSE Head(proof_hashes)

\* ProvingPipeline::combine_proof_hashes
combine_proof_hashes(t, proof_hashes) ==
    IF t.task_type \in {"AllProofHashes", "ProofHash"}
    THEN Task_combine_proof_hashes(proof_hashes)
    ELSE IF proof_hashes = <<>> THEN -1 ELSE Head(proof_hashes)

\* results.sort_by_key(|(_, _, index)| *index): a stable insertion sort.
RECURSIVE InsertByIndex(_, _)
InsertByIndex(r, sorted) ==
    IF sorted = <<>> THEN <<r>>
    ELSE IF r.index < Head(sorted).index THEN <<r>> \o sorted
    ELSE <<Head(sorted)>> \o InsertByIndex(r, Tail(sorted))

\* Mutant: the sort is left out, results stay in completion order.
sort_by_key_Missing(rs) == rs

RECURSIVE sort_by_key(_)
sort_by_key(rs) ==
    IF rs = <<>> THEN <<>>
    ELSE InsertByIndex(rs[Len(rs)], sort_by_key(SubSeq(rs, 1, Len(rs) - 1)))

-----------------------------------------------------------------------------
\* State

all_inputs == task.inputs
NumInputs == Len(all_inputs)
InputIndices == 0..(NumInputs - 1)

Queued == [st |-> "queued", res |-> Ok(<<>>)]

RECURSIVE SeqsUpTo(_, _)
SeqsUpTo(S, n) ==
    IF n = 0 THEN {<<>>}
    ELSE LET shorter == SeqsUpTo(S, n - 1)
         IN shorter \cup {Append(s, x) : s \in {t \in shorter : Len(t) = n - 1}, x \in S}

Init ==
    /\ task \in [program_id : ProgramIds, task_type : TaskTypes,
                 inputs : SeqsUpTo(RawInputs, MaxLen)]
    /\ num_workers \in 0..MaxWorkers
    /\ pc = "authenticated_proving"
    /\ next_index = 0
    /\ stream_done = FALSE
    /\ in_progress = {}
    /\ unit = [i \in InputIndices |-> Queued]
    /\ results = <<>>
    /\ outcome = NoOutcome
    /\ reports = <<>>
    /\ completed = <<>>
    /\ calls = [parse |-> 0, engine |-> 0, combine |-> 0]

-----------------------------------------------------------------------------
\* Helpers of the actions

OkOutcome(proofs, hash, hashes) ==
    [tag |-> "Ok", proofs |-> proofs, hash |-> hash, hashes |-> hashes, err |-> NoErr]
ErrOutcome(e) == [NoOutcome EXCEPT !.tag = "Err", !.err = e]

\* Mutant: every program id takes the fibonacci arm.
IsSupported_Any(program_id) == TRUE

\* The arm "fib_input_initial" of the match on task.program_id.
IsSupported(program_id) == program_id = "fib_input_initial"

\* Mutant: the empty check never fires.
is_empty_Never(inputs) == FALSE

\* all_inputs.is_empty()
is_empty(inputs) == inputs = <<>>

\* The futures FuturesUnordered would poll: pushed and not yet polled, or
\* woken by the completion of their engine call.
ReadyToRun == {i \in in_progress : unit[i].st \in {"pushed", "woken"}}

\* Mutant: a static partition, a new batch starts only when the window holds
\* nothing but futures pushed in this very fill.
HasRoom_Batch ==
    /\ Cardinality(in_progress) < num_workers
    /\ \A i \in in_progress : unit[i].st = "pushed"

\* Mutant: a budget of 0 means no limit.
HasRoom_ZeroUnbounded == num_workers = 0 \/ Cardinality(in_progress) < num_workers

\* Mutant: the fill loop admits one future too many.
HasRoom_OffByOne == Cardinality(in_progress) <= num_workers

\* The while condition of BufferUnordered's fill loop.
HasRoom == Cardinality(in_progress) < num_workers

\* Mutant: guest program failures are not reported.
IsReported_StwoOnly(e) == e.kind = "Stwo"

\* The error kinds the map_err closure reports.
IsReported(e) == e.kind \in {"Stwo", "GuestProgram"}

\* Mutant: the message does not carry the index of the failing input.
error_msg_NoIndex(input_index, e) == [input_index |-> 0, e |-> e]

\* format!("Input {}: {}", input_index, e)
error_msg(input_index, e) == [input_index |-> input_index, e |-> e]

\* The map_err closure: tokio::spawn(track_verification_failed(..)) for the
\* reported kinds; the error itself goes on unchanged.
map_err(input_index, e) ==
    IF IsReported(e)
    THEN Append(reports, [msg |-> error_msg(input_index, e), st |-> "pending"])
    ELSE reports

\* Mutant: the wake-up is lost.
Wake_Lost(p) == p

\* The waker of an engine call wakes the task awaiting try_collect.
Wake(p) == IF p = "pending" THEN "fill" ELSE p

\* Mutant: the failed input is skipped and the dispatch goes on.
ReturnErr_Skip(i, e) ==
    /\ pc' = "fill"
    /\ unit' = [unit EXCEPT ![i] = [st |-> "returned", res |-> Err(e)]]
    /\ in_progress' = in_progress \ {i}
    /\ completed' = Append(completed, i)
    /\ UNCHANGED <<outcome, results>>

\* Mutant: the error is returned but the in-flight futures are left running.
ReturnErr_NoDrop(i, e) ==
    /\ pc' = "done"
    /\ outcome' = ErrOutcome(e)
    /\ unit' = [unit EXCEPT ![i] = [st |-> "returned", res |-> Err(e)]]
    /\ in_progress' = in_progress \ {i}
    /\ results' = <<>>
    /\ completed' = Append(completed, i)

\* Mutant: the error is recorded but the stream is drained to its end, so a
\* later error replaces an earlier one.
ReturnErr_LastWins(i, e) ==
    /\ pc' = "fill"
    /\ outcome' = ErrOutcome(e)
    /\ unit' = [unit EXCEPT ![i] = [st |-> "returned", res |-> Err(e)]]
    /\ in_progress' = in_progress \ {i}
    /\ completed' = Append(completed, i)
    /\ UNCHANGED results

\* `return Err(e)` out of prove_fib_task, e coming from the future of input
\* i: the stream, its in-progress queue and the partial Vec are dropped with
\* the frame, so every other future in the queue is dropped where it stands.
ReturnErr(i, e) ==
    /\ pc' = "done"
    /\ outcome' = ErrOutcome(e)
    /\ unit' = [j \in InputIndices |->
                  IF j = i THEN [st |-> "returned", res |-> Err(e)]
                  ELSE IF j \in in_progress THEN [unit[j] EXCEPT !.st = "dropped"]
                  ELSE unit[j]]
    /\ in_progress' = {}
    /\ results' = <<>>
    /\ completed' = Append(completed, i)

\* Mutant: the hashes are combined in completion order, before the sort.
Reassemble_CombineFirst(collected) ==
    LET sorted == sort_by_key(collected)
        unsorted_hashes == [k \in 1..Len(collected) |-> collected[k].hash]
        proof_hashes == [k \in 1..Len(sorted) |-> sorted[k].hash]
        all_proofs == [k \in 1..Len(sorted) |-> sorted[k].proof]
    IN OkOutcome(all_proofs, combine_proof_hashes(task, unsorted_hashes), proof_hashes)

\* Lines 97-107: sort by index, split into the two lists, combine.
Reassemble(collected) ==
    LET sorted == sort_by_key(collected)
        proof_hashes == [k \in 1..Len(sorted) |-> sorted[k].hash]
        all_proofs == [k \in 1..Len(sorted) |-> sorted[k].proof]
    IN OkOutcome(all_proofs, combine_proof_hashes(task, proof_hashes), proof_hashes)

-----------------------------------------------------------------------------
\* Actions

\* handlers.rs: authenticated_proving forwards to the pipeline.
AuthenticatedProving ==
    /\ pc = "authenticated_proving"
    /\ pc' = "prove_authenticated"
    /\ UNCHANGED <<task, num_workers, next_index, stream_done, in_progress, unit,
                   results, outcome, reports, completed, calls>>

\* prove_authenticated: the match on task.program_id.
ProveAuthenticated ==
    /\ pc = "prove_authenticated"
    /\ IF IsSupported(task.program_id)
       THEN /\ pc' = "prove_fib_task"
            /\ UNCHANGED outcome
       ELSE /\ pc' = "done"
            /\ outcome' = ErrOutcome(MalformedTask("Unsupported program ID"))
    /\ UNCHANGED <<task, num_workers, next_index, stream_done, in_progress, unit,
                   results, reports, completed, calls>>

\* prove_fib_task up to the await: the empty check, then the lazy stream.
ProveFibTask ==
    /\ pc = "prove_fib_task"
    /\ IF is_empty(all_inputs)
       THEN /\ pc' = "done"
            /\ outcome' = ErrOutcome(MalformedTask("No inputs provided for task"))
       ELSE /\ pc' = "fill"
            /\ UNCHANGED outcome
    /\ UNCHANGED <<task, num_workers, next_index, stream_done, in_progress, unit,
                   results, reports, completed, calls>>

\* Mutant: the inputs are taken from the end of the list.
Admit_Reverse ==
    /\ pc = "fill"
    /\ HasRoom
    /\ next_index < NumInputs
    /\ in_progress' = in_progress \cup {NumInputs - 1 - next_index}
    /\ unit' = [unit EXCEPT ![NumInputs - 1 - next_index].st = "pushed"]
    /\ next_index' = next_index + 1
    /\ UNCHANGED <<task, num_workers, pc, stream_done, results, outcome, reports,
                   completed, calls>>

\* One round of BufferUnordered's fill loop that finds an item: the next
\* (input_index, input_data) future is pushed on the in-progress queue.
Admit ==
    /\ pc = "fill"
    /\ HasRoom
    /\ next_index < NumInputs
    /\ in_progress' = in_progress \cup {next_index}
    /\ unit' = [unit EXCEPT ![next_index].st = "pushed"]
    /\ next_index' = next_index + 1
    /\ UNCHANGED <<task, num_workers, pc, stream_done, results, outcome, reports,
                   completed, calls>>

\* The fill loop ends: the queue is full, or the stream returned None.
FillEnd ==
    /\ pc = "fill"
    /\ ~(HasRoom /\ next_index < NumInputs)
    /\ stream_done' = (stream_done \/ HasRoom)
    /\ pc' = "poll"
    /\ UNCHANGED <<task, num_workers, next_index, in_progress, unit, results,
                   outcome, reports, completed, calls>>

\* Mutant: the parse error goes through the reporting closure and the engine
\* is called before the parse result is looked at.
StartUnit_ReportsParse(i) ==
    /\ pc = "poll"
    /\ i \in in_progress
    /\ unit[i].st = "pushed"
    /\ LET inputs == parse_triple_input(all_inputs[i + 1], i) IN
       IF inputs.ok
       THEN /\ unit' = [unit EXCEPT ![i] = [st |-> "engine", res |-> inputs]]
            /\ calls' = [calls EXCEPT !.parse = @ + 1, !.engine = @ + 1]
            /\ UNCHANGED <<pc, in_progress, results, outcome, completed, reports>>
       ELSE /\ calls' = [calls EXCEPT !.parse = @ + 1, !.engine = @ + 1]
            /\ reports' = Append(reports, [msg |-> error_msg(i, inputs.err),
                                           st |-> "pending"])
            /\ ReturnErr(i, inputs.err)
    /\ UNCHANGED <<task, num_workers, next_index, stream_done>>

\* First poll of the future of input i: parse, then call the engine.
StartUnit(i) ==
    /\ pc = "poll"
    /\ i \in in_progress
    /\ unit[i].st = "pushed"
    /\ LET inputs == parse_triple_input(all_inputs[i + 1], i) IN
       IF inputs.ok
       THEN /\ unit' = [unit EXCEPT ![i] = [st |-> "engine", res |-> inputs]]
            /\ calls' = [calls EXCEPT !.parse = @ + 1, !.engine = @ + 1]
            /\ UNCHANGED <<pc, in_progress, results, outcome, completed>>
       ELSE /\ calls' = [calls EXCEPT !.parse = @ + 1]
            /\ ReturnErr(i, inputs.err)
    /\ UNCHANGED <<task, num_workers, next_index, stream_done, reports>>

\* The engine call of input i is ready to return and wakes the task.
EngineComplete(i) ==
    /\ i \in in_progress
    /\ unit[i].st = "engine"
    /\ unit' = [unit EXCEPT ![i].st = "woken"]
    /\ pc' = Wake(pc)
    /\ UNCHANGED <<task, num_workers, next_index, stream_done, in_progress, results,
                   outcome, reports, completed, calls>>

\* The future of input i is polled again and its engine call returns r: on
\* an error the map_err closure runs and `?` returns it; on a proof the
\* future yields (proof, proof_hash, input_index) and try_collect pushes it.
FinishUnit(i) ==
    /\ pc = "poll"
    /\ i \in in_progress
    /\ unit[i].st = "woken"
    /\ \E r \in EngineResults(unit[i].res.val, i) :
       IF r.ok
       THEN /\ results' = Append(results, [proof |-> r.val,
                                           hash |-> generate_proof_hash(r.val),
                                           index |-> i])
            /\ unit' = [unit EXCEPT ![i] = [st |-> "returned", res |-> r]]
            /\ in_progress' = in_progress \ {i}
            /\ completed' = Append(completed, i)
            /\ pc' = "fill"
            /\ UNCHANGED <<outcome, reports>>
       ELSE /\ reports' = map_err(i, r.err)
            /\ ReturnErr(i, r.err)
    /\ UNCHANGED <<task, num_workers, next_index, stream_done, calls>>

\* No future is ready to run: the poll returns Pending.
Pending ==
    /\ pc = "poll"
    /\ ReadyToRun = {}
    /\ ~(in_progress = {} /\ stream_done)
    /\ pc' = "pending"
    /\ UNCHANGED <<task, num_workers, next_index, stream_done, in_progress, unit,
                   results, outcome, reports, completed, calls>>

\* The stream is exhausted: try_collect returns the Vec, which is sorted by
\* index and split, and the hashes are combined.
Collect ==
    /\ pc = "poll"
    /\ in_progress = {}
    /\ stream_done
    /\ outcome' = Reassemble(results)
    /\ calls' = [calls EXCEPT !.combine = @ + 1]
    /\ pc' = "done"
    /\ UNCHANGED <<task, num_workers, next_index, stream_done, in_progress, unit,
                   results, reports, completed>>

\* Mutant: the report is awaited and its failure replaces the error.
ReportEnds_Alters(k) ==
    /\ reports[k].st = "pending"
    /\ \E st \in {"sent", "failed"} :
          /\ reports' = [reports EXCEPT ![k].st = st]
          /\ outcome' = IF st = "failed"
                        THEN ErrOutcome(UnitErr("Other", reports[k].msg.input_index))
                        ELSE outcome
    /\ UNCHANGED <<task, num_workers, pc, next_index, stream_done, in_progress, unit,
                   results, completed, calls>>

\* A spawned track_verification_failed task ends, with or without success.
ReportEnds(k) ==
    /\ reports[k].st = "pending"
    /\ \E st \in {"sent", "failed"} : reports' = [reports EXCEPT ![k].st = st]
    /\ UNCHANGED <<task, num_workers, pc, next_index, stream_done, in_progress, unit,
                   results, outcome, completed, calls>>

Dispatcher ==
    \/ AuthenticatedProving
    \/ ProveAuthenticated
    \/ ProveFibTask
    \/ Admit
    \/ FillEnd
    \/ \E i \in InputIndices : StartUnit(i)
    \/ \E i \in InputIndices : FinishUnit(i)
    \/ Pending
    \/ Collect

\* The executor polls the dispatching task whenever it can run, and every
\* engine call that was started eventually completes: as long as the task
\* can step or an engine call is running, one of them makes a step.  The
\* spawned reports get no fairness.
Progress == Dispatcher \/ \E i \in InputIndices : EngineComplete(i)

Next ==
    \/ Progress
    \/ \E k \in DOMAIN reports : ReportEnds(k)

Spec == Init /\ [][Next]_vars

FairSpec == Spec /\ WF_vars(Progress)

-----------------------------------------------------------------------------
\* Properties

Recognized == task.program_id = "fib_input_initial"
Failed(i) == unit[i].st = "returned" /\ ~unit[i].res.ok
Succeeded(i) == unit[i].st = "returned" /\ unit[i].res.ok
ReportsFor(i) == {k \in DOMAIN reports : reports[k].msg.input_index = i}
ZeroCalls == calls = [parse |-> 0, engine |-> 0, combine |-> 0]

\* C1: a successful dispatch returns a proof list and a hash list of the
\* length of the input list, and position i of each holds the proof the
\* engine returned for input i, respectively its hash.
C1_OrderedResults ==
    outcome.tag = "Ok" =>
        /\ Len(outcome.proofs) = NumInputs
        /\ Len(outcome.hashes) = NumInputs
        /\ \A i \in InputIndices :
              /\ Succeeded(i)
              /\ unit[i].res.val = ProofOf(parse_triple_input(all_inputs[i + 1], i).val)
              /\ outcome.proofs[i + 1] = unit[i].res.val
              /\ outcome.hashes[i + 1] = generate_proof_hash(unit[i].res.val)

\* C1 witness: three different completions out of input order, returned in
\* input order.
C1_Witness ==
    /\ outcome.tag = "Ok"
    /\ NumInputs = 3
    /\ num_workers = 2
    /\ completed[1] # 0
    /\ all_inputs[1] # all_inputs[2]
    /\ outcome.proofs[1] # outcome.proofs[2]

\* C2: with a worker budget of at least 1, the futures admitted to the
\* in-progress queue and not yet returned never outnumber the budget.
C2_BoundedInFlight ==
    num_workers >= 1 =>
        /\ Cardinality(in_progress) <= num_workers
        /\ in_progress = {i \in InputIndices : unit[i].st \in {"pushed", "engine", "woken"}}

\* C2 witness: the window is full, every admitted engine call is running and
\* an input is still queued.
C2_Witness ==
    /\ num_workers = 2
    /\ Cardinality(in_progress) = 2
    /\ next_index < NumInputs
    /\ \A i \in in_progress : unit[i].st = "engine"

\* C3: when the future of an input returns an error, whatever its kind, the
\* dispatch has returned exactly that error, with no proof or hash list.
C3_ErrorIsResult ==
    \A k \in InputIndices :
        Failed(k) =>
            /\ pc = "done"
            /\ outcome.tag = "Err"
            /\ outcome.err = unit[k].res.err
            /\ outcome.proofs = <<>>
            /\ outcome.hashes = <<>>

\* C3 witness: an input fails after another one had already been proved.
C3_Witness ==
    \E k, j \in InputIndices :
        /\ Failed(k)
        /\ unit[k].res.err.kind = "Other"
        /\ Succeeded(j)
        /\ outcome.tag = "Err"

\* C4: a task with an unsupported program id gets MalformedTask, and the
\* parser, the engine, the combiner and the reporter are never called.
C4_UnsupportedProgram ==
    task.program_id # "fib_input_initial" =>
        /\ ZeroCalls
        /\ reports = <<>>
        /\ next_index = 0
        /\ outcome.tag \in {"none", "Err"}
        /\ pc = "done" => outcome = ErrOutcome(MalformedTask("Unsupported program ID"))

\* C4 witness: such a task with inputs and workers has been answered.
C4_Witness ==
    /\ task.program_id # "fib_input_initial"
    /\ NumInputs >= 2
    /\ num_workers >= 1
    /\ outcome.tag = "Err"

\* C5: a recognized task without inputs gets MalformedTask; no input is
\* admitted and parser, engine, reporter and hash combiner are never called.
C5_EmptyInputs ==
    (Recognized /\ all_inputs = <<>>) =>
        /\ ZeroCalls
        /\ reports = <<>>
        /\ in_progress = {}
        /\ pc \notin {"fill", "poll", "pending"}
        /\ outcome.tag \in {"none", "Err"}
        /\ pc = "done" => outcome = ErrOutcome(MalformedTask("No inputs provided for task"))

\* C5 witness: the empty task has been answered.
C5_Witness ==
    /\ Recognized
    /\ all_inputs = <<>>
    /\ num_workers >= 1
    /\ outcome.tag = "Err"

\* C6: an input whose engine call returned a Stwo or GuestProgram error has
\* exactly one report; every other input has none.
C6_OneReportPerReportedFailure ==
    /\ \A i \in InputIndices :
          Cardinality(ReportsFor(i)) =
              IF Failed(i) /\ unit[i].res.err.kind \in {"Stwo", "GuestProgram"}
              THEN 1 ELSE 0
    /\ \A k \in DOMAIN reports :
          /\ reports[k].msg.input_index \in InputIndices
          /\ reports[k].msg.e = unit[reports[k].msg.input_index].res.err

\* C6 witness: input 1 failed in the guest program after input 0 was proved.
C6_Witness ==
    /\ NumInputs >= 2
    /\ Succeeded(0)
    /\ Failed(1)
    /\ unit[1].res.err.kind = "GuestProgram"
    /\ Len(reports) = 1

\* C7: the task hash of a successful dispatch is the combination of the
\* hashes in input order for AllProofHashes and ProofHash, and the hash of
\* the proof of input 0 for every other task type.
C7_TaskHash ==
    outcome.tag = "Ok" =>
        LET h == [k \in 1..NumInputs |-> generate_proof_hash(unit[k - 1].res.val)] IN
        IF task.task_type \in {"AllProofHashes", "ProofHash"}
        THEN outcome.hash = Task_combine_proof_hashes(h)
        ELSE outcome.hash = h[1]

\* C7 witness: an Individual task whose input 0 was not the first to
\* complete and whose first two hashes differ.
C7_Witness ==
    /\ outcome.tag = "Ok"
    /\ task.task_type = "Individual"
    /\ NumInputs = 3
    /\ num_workers = 2
    /\ completed[1] # 0
    /\ outcome.hashes[1] # outcome.hashes[2]
    /\ outcome.hash = outcome.hashes[1]

\* C8: a recognized task with inputs and a worker budget of at least 1 is
\* eventually answered, with a success or with one error, and the answer
\* never changes afterwards.
C8_Resolves ==
    /\ (Recognized /\ all_inputs # <<>> /\ num_workers >= 1)
          ~> (pc = "done" /\ outcome.tag \in {"Ok", "Err"})
    /\ [][outcome.tag # "none" => outcome' = outcome]_vars

\* C8 witness: a dispatch with more inputs than workers has been answered.
C8_Witness ==
    /\ pc = "done"
    /\ Recognized
    /\ num_workers >= 1
    /\ NumInputs > num_workers
    /\ outcome.tag = "Ok"

FailedAt == {n \in DOMAIN completed : ~unit[completed[n]].res.ok}

\* C10: the error of the dispatch is the error of the first input, in
\* completion order, that returned one, and it is the only one.
C10_FirstErrorWins ==
    /\ FailedAt # {} => outcome.tag = "Err"
    /\ (outcome.tag = "Err" /\ outcome.err.kind # "MalformedTask") =>
          /\ FailedAt # {}
          /\ LET first == CHOOSE n \in FailedAt : \A m \in FailedAt : n <= m
             IN outcome.err = unit[completed[first]].res.err
          /\ \A i \in InputIndices : Failed(i) => outcome.err = unit[i].res.err

\* C10 witness: input 2 returned the error while the future of an earlier
\* input was still in flight.
C10_Witness ==
    /\ outcome.tag = "Err"
    /\ NumInputs = 3
    /\ Failed(2)
    /\ outcome.err.unit = 2
    /\ \E j \in {0, 1} : unit[j].st = "dropped"

\* C11: once the dispatch has returned an error nothing more is admitted,
\* parsed or passed to the engine: the inputs still queued stay queued.
C11_NoAdmissionAfterError ==
    [][outcome.tag = "Err" =>
          /\ next_index' = next_index
          /\ calls' = calls
          /\ in_progress' = {}
          /\ \A i \in InputIndices :
                unit[i].st \in {"queued", "dropped"} => unit'[i] = unit[i]]_vars

\* C11 witness: an error was returned with an input still queued, and a
\* later step (the report ending) has been taken.
C11_Witness ==
    /\ outcome.tag = "Err"
    /\ NumInputs = 3
    /\ next_index = 2
    /\ unit[2].st = "queued"
    /\ calls.parse = 2
    /\ Len(reports) = 1
    /\ reports[1].st = "sent"

\* C12: when the dispatch has returned a Stwo or GuestProgram error, a report
\* naming the input that produced it and carrying that error has been
\* spawned; every report names an input whose engine call returned a Stwo or
\* GuestProgram error.
C12_ReportNamesFailingInput ==
    /\ (outcome.tag = "Err" /\ outcome.err.kind \in {"Stwo", "GuestProgram"}) =>
          \E k \in DOMAIN reports :
              /\ reports[k].msg.input_index = outcome.err.unit
              /\ reports[k].msg.e = outcome.err
              /\ Failed(outcome.err.unit)
    /\ \A k \in DOMAIN reports :
          LET i == reports[k].msg.input_index IN
          /\ i \in InputIndices
          /\ Failed(i)
          /\ unit[i].res.err.kind \in {"Stwo", "GuestProgram"}
          /\ unit[i].res.err.unit = i

\* C12 witness: input 1 fails in the guest program, one report names it.
C12_Witness ==
    /\ outcome.tag = "Err"
    /\ outcome.err.kind = "GuestProgram"
    /\ outcome.err.unit = 1
    /\ Len(reports) = 1
    /\ reports[1].msg.input_index = 1
    /\ outcome.proofs = <<>>

\* C13: a report exists only once the dispatch has returned, and whether the
\* report is pending, sent or failed the outcome is the engine error the
\* report was spawned for.
C13_ReportNeverAwaited ==
    \A k \in DOMAIN reports :
        /\ pc = "done"
        /\ reports[k].st \in {"pending", "sent", "failed"}
        /\ outcome = ErrOutcome(reports[k].msg.e)
        /\ outcome.err.kind \in {"Stwo", "GuestProgram"}

\* C13 witness: the dispatch returned a Stwo error and its report failed.
C13_Witness ==
    /\ pc = "done"
    /\ outcome.tag = "Err"
    /\ outcome.err.kind = "Stwo"
    /\ Len(reports) = 1
    /\ reports[1].st = "failed"

\* The inputs whose future went past the parser.
PastParser ==
    {i \in InputIndices :
        \/ unit[i].st \in {"engine", "woken"}
        \/ unit[i].st = "dropped" /\ unit[i].res.val # <<>>
        \/ unit[i].st = "returned" /\ (unit[i].res.ok \/ unit[i].res.err.kind # "Parse")}

\* C14: an input that does not parse never reaches the engine and has no
\* report; once its future has run, the dispatch has returned the parser's
\* error.
C14_ParseErrorPropagates ==
    /\ calls.engine = Cardinality(PastParser)
    /\ \A i \in InputIndices :
          all_inputs[i + 1] = 0 =>
              /\ i \notin PastParser
              /\ unit[i].st \in {"queued", "pushed", "returned", "dropped"}
              /\ ReportsFor(i) = {}
              /\ unit[i].st = "returned" =>
                    /\ outcome = ErrOutcome([kind |-> "Parse", msg |-> "", unit |-> i])
                    /\ unit[i].res.err = outcome.err
                    /\ reports = <<>>

\* C14 witness: input 1 does not parse; input 0 was in the engine.
C14_Witness ==
    /\ NumInputs >= 2
    /\ num_workers = 2
    /\ all_inputs[2] = 0
    /\ unit[1].st = "returned"
    /\ unit[0].st = "dropped"
    /\ calls = [parse |-> 2, engine |-> 1, combine |-> 0]
    /\ outcome.err.kind = "Parse"

\* What a successful dispatch of the task returns, from the task alone.
ExpectedProofs ==
    [k \in 1..NumInputs |-> ProofOf(parse_triple_input(all_inputs[k], k - 1).val)]
ExpectedHashes == [k \in 1..NumInputs |-> generate_proof_hash(ExpectedProofs[k])]

\* C15: the triple a successful dispatch returns is a function of the task:
\* it does not depend on the completion order or on the worker budget, and
\* the task hash is the combination of the hashes in input order.
C15_DeterministicTriple ==
    outcome.tag = "Ok" =>
        /\ outcome.proofs = ExpectedProofs
        /\ outcome.hashes = ExpectedHashes
        /\ outcome.hash = combine_proof_hashes(task, ExpectedHashes)
        /\ outcome.err = NoErr

\* C15 witness: a ProofHash task completed out of input order, for which
\* combining in completion order would give another hash.
C15_Witness ==
    /\ outcome.tag = "Ok"
    /\ task.task_type = "ProofHash"
    /\ NumInputs = 3
    /\ completed # <<0, 1, 2>>
    /\ Task_combine_proof_hashes([k \in 1..Len(results) |-> results[k].hash])
          # outcome.hash

Min(a, b) == IF a < b THEN a ELSE b

\* C16: whenever the dispatching task waits, the window holds as many
\* futures as the budget and the inputs not yet completed allow.
C16_WorkConserving ==
    pc = "pending" =>
        /\ Cardinality(in_progress) = Min(num_workers, NumInputs - Len(completed))
        /\ (num_workers >= 1 /\ Cardinality(in_progress) < num_workers)
              => next_index = NumInputs

\* C16 witness: input 0 completed, input 2 was admitted while the engine
\* call of input 1 is still running.
C16_Witness ==
    /\ pc = "pending"
    /\ num_workers = 2
    /\ NumInputs = 3
    /\ completed = <<0>>
    /\ in_progress = {1, 2}
    /\ unit[1].st = "engine"
    /\ unit[2].st = "engine"

\* C17: a dispatch spawns at most one report, and only when it returns.
C17_AtMostOneReport ==
    /\ Len(reports) <= 1
    /\ reports # <<>> => (pc = "done" /\ outcome.tag = "Err")
    /\ Cardinality({i \in InputIndices : Failed(i)}) <= 1

\* C17 witness: one report, while another admitted future was dropped.
C17_Witness ==
    /\ Len(reports) = 1
    /\ NumInputs = 3
    /\ \E i \in InputIndices : unit[i].st = "dropped"

\* C18: the admitted inputs are those below next_index, so they are admitted
\* in ascending order and once; the collected results and the completion
\* history hold each input index at most once.
C18_AdmittedPrefix ==
    /\ {i \in InputIndices : unit[i].st # "queued"} = 0..(next_index - 1)
    /\ next_index <= NumInputs
    /\ in_progress \subseteq 0..(next_index - 1)
    /\ \A m, n \in DOMAIN results : m # n => results[m].index # results[n].index
    /\ \A m, n \in DOMAIN completed : m # n => completed[m] # completed[n]
    /\ \A m \in DOMAIN completed : completed[m] < next_index

\* C18 witness: inputs 0 and 1 admitted, input 1 collected, input 2 queued.
C18_Witness ==
    /\ NumInputs = 3
    /\ next_index = 2
    /\ unit[2].st = "queued"
    /\ Len(results) = 1
    /\ results[1].index = 1

\* C19: with a worker budget of 0 a recognized task with inputs is never
\* answered: nothing is admitted, parsed or proved, no outcome is returned.
C19_ZeroBudgetHangs ==
    (Recognized /\ all_inputs # <<>> /\ num_workers = 0) =>
        /\ outcome = NoOutcome
        /\ pc # "done"
        /\ next_index = 0
        /\ in_progress = {}
        /\ ZeroCalls
        /\ reports = <<>>
        /\ pc = "pending" => ~ENABLED Next

\* C19 witness: the dispatch waits with nothing in flight.
C19_Witness ==
    /\ Recognized
    /\ NumInputs = 3
    /\ num_workers = 0
    /\ pc = "pending"
    /\ ~stream_done

====
